---- MODULE Spec2Model ----
(***************************************************************************)
(* Data-integration service of the AI Voice Agent platform: the relational *)
(* tables behind the database/binding endpoints, the MCP protocol server   *)
(* (one session per websocket connection) and the file ingestion pipeline. *)
(***************************************************************************)
EXTENDS Integers, Sequences, FiniteSets, TLC

\* ------------------------------------------------------------------ bounds
MaxBusinesses == 2
MaxAgents == 1
MaxDatabases == 2
MaxBindings == 2
MaxNames == 2
MaxConns == 1
MaxPairConns == 2
MaxRequestId == 1
MaxSources == 2
MaxRuns == 2
MaxTextLen == 12
MaxChunks == 4

Businesses == 1..MaxBusinesses
Agents == 1..MaxAgents
DatabaseIds == 1..MaxDatabases
BindingIds == 1..MaxBindings
Names == 1..MaxNames
ConnIds == 1..MaxConns
PairConnIds == 1..MaxPairConns
RequestIds == 1..MaxRequestId
SourceIds == 1..MaxSources

\* A missing / null JSON field of an id or number type (Python None).
NoId == 0
\* A missing / null JSON field of a text type (Python None).
Null == <<"null">>

VARIABLES
    databases,       \* table business_databases: rows [id, business_id, name]
    nextDatabaseId,  \* ids handed out so far (uuid4 primary keys are never reused)
    bindings,        \* table agent_database_bindings
    nextBindingId,
    connections,     \* MCPServer.connections: the connection ids with a live websocket
    agent_bindings,  \* MCPServer.agent_bindings: connection id -> authorized database ids
    session,         \* history: state of each connection's current session
    lastReq,         \* history: the message handle_message processed last
    lastResp,        \* history: the response it sent
    lastCall,        \* history: the backend call it made
    data_sources,    \* table data_sources: id -> row
    nextSourceId,
    data_chunks,     \* table data_chunks: data source id -> its rows, in insertion order
    storage,         \* file storage: data source id (the path's directory) -> bytes
    uploads,         \* upload_file calls between the insert and the saved file
    tasks,           \* process_file_background calls queued per data source
    run,             \* the process_file call the event loop is executing
    runs,            \* history: process_file calls started per data source
    index_result,    \* history: outcome of the last _index_chunks per data source
    lastUpload,      \* history: the upload checked last and its outcome
    lastBind,        \* history: the bind request answered last and its outcome
    split,           \* a call of FileProcessor._split_text: its text and loop state
    vector_index,    \* the points of the vector collection
    lastSearch       \* history: the search answered last and the hits returned

mcpVars == <<connections, agent_bindings, session, lastReq, lastResp, lastCall>>
tableVars == <<databases, nextDatabaseId, bindings, nextBindingId, lastBind>>
ingestVars == <<data_sources, nextSourceId, data_chunks, storage, uploads, tasks, run,
               runs, index_result, lastUpload>>
chunkerVars == <<split>>
searchVars == <<vector_index, lastSearch>>
vars == <<databases, nextDatabaseId, bindings, nextBindingId,
          connections, agent_bindings, session, lastReq, lastResp, lastCall,
          data_sources, nextSourceId, data_chunks, storage, uploads, tasks, run,
          runs, index_result, lastUpload, lastBind, split, vector_index, lastSearch>>

\* ------------------------------------------------------- relational tables

\* databases.py create_database: the name must be new within the business.
create_database(business, name) ==
    /\ nextDatabaseId < MaxDatabases
    /\ ~ \E d \in databases : d.business_id = business /\ d.name = name
    /\ databases' = databases \cup
          {[id |-> nextDatabaseId + 1, business_id |-> business, name |-> name]}
    /\ nextDatabaseId' = nextDatabaseId + 1
    /\ UNCHANGED <<bindings, nextBindingId>>


Restrict(f, S) == [x \in S |-> f[x]]

\* databases.py delete_database: the ORM relationships of BusinessDatabase
\* (models/database.py 33-34) cascade the delete to its bindings and to its
\* data sources, and DataSource.chunks (line 62) to their chunk rows. Stored
\* files and queued tasks are not touched.
delete_database(database_id, business) ==
    /\ \E d \in databases : d.id = database_id /\ d.business_id = business
    /\ databases' = {d \in databases : d.id # database_id}
    /\ bindings' = {b \in bindings : b.database_id # database_id}
    /\ LET kept == {i \in DOMAIN data_sources : data_sources[i].database_id # database_id}
       IN  /\ data_sources' = Restrict(data_sources, kept)
           /\ data_chunks' = Restrict(data_chunks, kept)
           /\ index_result' = Restrict(index_result, kept)
    /\ UNCHANGED <<nextDatabaseId, nextBindingId>>

\* A bind that never looks for the binding the pair already has.
bind_check_unchecked(database_id, agent, business) ==
    IF ~ \E d \in databases : d.id = database_id /\ d.business_id = business
    THEN "not_found"
    ELSE "created"
\* databases.py bind_agent_to_database, lines 231-253: 404 unless the database
\* is the caller's, then 400 when a binding row of (agent, database) exists.
bind_check(database_id, agent, business) ==
    IF ~ \E d \in databases : d.id = database_id /\ d.business_id = business
    THEN "not_found"
    ELSE IF \E b \in bindings : b.agent_id = agent /\ b.database_id = database_id
    THEN "duplicate"
    ELSE "created"

\* databases.py bind_agent_to_database: a request that passes the checks adds
\* one binding row; is_active defaults to True. A refused one writes nothing.
bind_agent_to_database(database_id, agent, business) ==
    LET outcome == bind_check(database_id, agent, business)
    IN  /\ outcome = "created" => nextBindingId < MaxBindings
        /\ IF outcome = "created"
           THEN /\ bindings' = bindings \cup
                       {[id |-> nextBindingId + 1, agent_id |-> agent,
                         database_id |-> database_id, business_id |-> business,
                         is_active |-> TRUE]}
                /\ nextBindingId' = nextBindingId + 1
           ELSE UNCHANGED <<bindings, nextBindingId>>
        /\ UNCHANGED <<databases, nextDatabaseId>>

\* databases.py remove_agent_binding: deletes the caller's binding row, nothing else.
remove_agent_binding(binding_id, business) ==
    /\ \E b \in bindings : b.id = binding_id /\ b.business_id = business
    /\ bindings' = {b \in bindings : b.id # binding_id}
    /\ UNCHANGED <<databases, nextDatabaseId, nextBindingId>>

\* query_service.get_agent_bindings(agent_id, business_id): the Access Binding
\* Registry's resolve, the active bindings of the agent within the business.
get_agent_bindings(agent, business) ==
    {b.database_id : b \in {x \in bindings :
        x.agent_id = agent /\ x.business_id = business /\ x.is_active}}

\* ------------------------------------------------------------- MCP messages

Operations == {"authenticate", "list_databases", "query_database",
               "search_knowledge", "get_schema", "execute_query"}
\* An operation name the dispatcher does not know, and a missing "operation".
OtherOperations == {"ping", "null"}

\* SQL text, as a sequence of lexical tokens: no text (None), a SELECT, a SELECT
\* in lower case between blanks, a mutating statement, and a SELECT followed by
\* a mutating statement in the same text.
SqlTexts == {Null, <<"SELECT">>, <<" ", "select", " ">>, <<"DROP">>,
             <<"select", ";", "DROP">>}
Queries == {Null, <<"q">>}

\* str.strip(): whitespace removed at both ends.
RECURSIVE LStrip(_)
LStrip(s) == IF s # <<>> /\ Head(s) = " " THEN LStrip(Tail(s)) ELSE s
RECURSIVE RStrip(_)
RStrip(s) == IF s # <<>> /\ s[Len(s)] = " " THEN RStrip(SubSeq(s, 1, Len(s) - 1)) ELSE s
Strip(s) == RStrip(LStrip(s))
\* str.upper(), token by token.
UpperToken(t) == IF t = "select" THEN "SELECT" ELSE t
Upper(s) == [i \in 1..Len(s) |-> UpperToken(s[i])]
\* str.startswith("SELECT")
StartsWithSelect(s) == s # <<>> /\ s[1] = "SELECT"

Data(op, rid, agent, business, db, query, sql) ==
    [operation |-> op, request_id |-> rid, agent_id |-> agent,
     business_id |-> business, database_id |-> db, query |-> query, sql |-> sql]

\* The JSON objects a client can send, with the SQL texts drawn from S; a field
\* an operation does not read is absent.
MessagesWith(S) ==
    {Data("authenticate", r, a, b, NoId, Null, Null) :
        r \in RequestIds, a \in Agents \cup {NoId}, b \in Businesses \cup {NoId}}
    \cup {Data(op, r, NoId, NoId, NoId, Null, Null) :
        op \in {"list_databases"} \cup OtherOperations, r \in RequestIds}
    \cup {Data("query_database", r, NoId, NoId, d, q, Null) :
        r \in RequestIds, d \in DatabaseIds \cup {NoId}, q \in Queries}
    \cup {Data("search_knowledge", r, NoId, NoId, d, q, Null) :
        r \in RequestIds, d \in DatabaseIds \cup {NoId}, q \in Queries}
    \cup {Data("get_schema", r, NoId, NoId, d, Null, Null) :
        r \in RequestIds, d \in DatabaseIds \cup {NoId}}
    \cup {Data("execute_query", r, NoId, NoId, d, Null, s) :
        r \in RequestIds, d \in DatabaseIds \cup {NoId}, s \in S}
Messages == MessagesWith(SqlTexts)

NoData == Data("null", NoId, NoId, NoId, NoId, Null, Null)

Response(type, error) == [type |-> type, error |-> error]
BackendCall(fn, ids, payload) == [fn |-> fn, database_ids |-> ids, payload |-> payload]
NoCall == BackendCall("none", {}, Null)
\* What a handler did: the response it returns (or the exception it lets
\* escape), the backend call it made and MCPServer.agent_bindings afterwards.
Returned(resp, call, ab) ==
    [raised |-> FALSE, response |-> resp, call |-> call, agent_bindings |-> ab]
Raised(call) ==
    [raised |-> TRUE, response |-> Response("none", ""), call |-> call,
     agent_bindings |-> agent_bindings]
Put(f, k, v) == [x \in DOMAIN f \cup {k} |-> IF x = k THEN v ELSE f[x]]

NotAuthenticated == Response("error", "Not authenticated")
AccessDenied == Response("error", "Access denied to this database")

\* ------------------------------------------------------------- MCP handlers
\* Each handler is given the parsed message, the connection id and whether the
\* backend call it awaits returns (ok) or raises.

\* handle_authenticate storing the looked-up ids for every connection.
handle_authenticate_shared(data, connection_id, ok) ==
    IF data.agent_id = NoId \/ data.business_id = NoId
    THEN Returned(Response("error", "Missing agent_id or business_id"), NoCall,
                  agent_bindings)
    ELSE IF ~ok
    THEN Raised(BackendCall("get_agent_bindings", {}, Null))
    ELSE Returned(Response("auth_success", ""),
                  BackendCall("get_agent_bindings", {}, Null),
                  [x \in DOMAIN agent_bindings \cup {connection_id} |->
                      get_agent_bindings(data.agent_id, data.business_id)])

\* handle_authenticate, lines 132-151: the bound database ids are stored under
\* the connection id once the lookup has returned.
handle_authenticate(data, connection_id, ok) ==
    IF data.agent_id = NoId \/ data.business_id = NoId
    THEN Returned(Response("error", "Missing agent_id or business_id"), NoCall,
                  agent_bindings)
    ELSE IF ~ok
    THEN Raised(BackendCall("get_agent_bindings", {}, Null))
    ELSE Returned(Response("auth_success", ""),
                  BackendCall("get_agent_bindings", {}, Null),
                  Put(agent_bindings, connection_id,
                      get_agent_bindings(data.agent_id, data.business_id)))

handle_list_databases(data, connection_id, ok) ==
    IF connection_id \notin DOMAIN agent_bindings
    THEN Returned(NotAuthenticated, NoCall, agent_bindings)
    ELSE LET call == BackendCall("get_databases_info", agent_bindings[connection_id], Null)
         IN  IF ok THEN Returned(Response("database_list", ""), call, agent_bindings)
                   ELSE Raised(call)

\* handle_query_database letting the exception of the backend escape.
handle_query_database_raising(data, connection_id, ok) ==
    IF connection_id \notin DOMAIN agent_bindings
    THEN Returned(NotAuthenticated, NoCall, agent_bindings)
    ELSE IF data.database_id \notin agent_bindings[connection_id]
    THEN Returned(AccessDenied, NoCall, agent_bindings)
    ELSE LET call == BackendCall("execute_structured_query", {data.database_id}, data.query)
         IN  IF ok THEN Returned(Response("query_result", ""), call, agent_bindings)
                   ELSE Raised(call)

\* handle_query_database without its check of the authorized set.
handle_query_database_unchecked(data, connection_id, ok) ==
    IF connection_id \notin DOMAIN agent_bindings
    THEN Returned(NotAuthenticated, NoCall, agent_bindings)
    ELSE LET call == BackendCall("execute_structured_query", {data.database_id}, data.query)
         IN  Returned(IF ok THEN Response("query_result", "")
                            ELSE Response("error", "Query execution failed"),
                      call, agent_bindings)

handle_query_database(data, connection_id, ok) ==
    IF connection_id \notin DOMAIN agent_bindings
    THEN Returned(NotAuthenticated, NoCall, agent_bindings)
    ELSE IF data.database_id \notin agent_bindings[connection_id]
    THEN Returned(AccessDenied, NoCall, agent_bindings)
    ELSE LET call == BackendCall("execute_structured_query", {data.database_id}, data.query)
         IN  Returned(IF ok THEN Response("query_result", "")
                            ELSE Response("error", "Query execution failed"),
                      call, agent_bindings)

handle_search_knowledge(data, connection_id, ok) ==
    IF connection_id \notin DOMAIN agent_bindings
    THEN Returned(NotAuthenticated, NoCall, agent_bindings)
    ELSE IF data.database_id # NoId /\ data.database_id \notin agent_bindings[connection_id]
    THEN Returned(AccessDenied, NoCall, agent_bindings)
    ELSE LET database_ids == IF data.database_id # NoId THEN {data.database_id}
                             ELSE agent_bindings[connection_id]
             call == BackendCall("semantic_search", database_ids, data.query)
         IN  Returned(IF ok THEN Response("search_result", "")
                            ELSE Response("error", "Search failed"),
                      call, agent_bindings)

handle_get_schema(data, connection_id, ok) ==
    IF connection_id \notin DOMAIN agent_bindings
    THEN Returned(NotAuthenticated, NoCall, agent_bindings)
    ELSE IF data.database_id \notin agent_bindings[connection_id]
    THEN Returned(AccessDenied, NoCall, agent_bindings)
    ELSE LET call == BackendCall("get_database_schema", {data.database_id}, Null)
         IN  Returned(IF ok THEN Response("schema_info", "")
                            ELSE Response("error", "Schema retrieval failed"),
                      call, agent_bindings)

\* The safety check of handle_execute_query: sql_query.strip().upper().startswith("SELECT")
IsSelect(sql_query) == StartsWithSelect(Upper(Strip(sql_query)))

\* handle_execute_query with the SQL safety check made before the access check.
handle_execute_query_sql_first(data, connection_id, ok) ==
    IF connection_id \notin DOMAIN agent_bindings
    THEN Returned(NotAuthenticated, NoCall, agent_bindings)
    ELSE IF data.sql = Null
    THEN Returned(Response("error", "SQL execution failed"), NoCall, agent_bindings)
    ELSE IF ~IsSelect(data.sql)
    THEN Returned(Response("error", "Only SELECT queries are allowed"), NoCall,
                  agent_bindings)
    ELSE IF data.database_id \notin agent_bindings[connection_id]
    THEN Returned(AccessDenied, NoCall, agent_bindings)
    ELSE LET call == BackendCall("execute_raw_query", {data.database_id}, data.sql)
         IN  Returned(IF ok THEN Response("sql_result", "")
                            ELSE Response("error", "SQL execution failed"),
                      call, agent_bindings)

handle_execute_query(data, connection_id, ok) ==
    IF connection_id \notin DOMAIN agent_bindings
    THEN Returned(NotAuthenticated, NoCall, agent_bindings)
    ELSE IF data.database_id \notin agent_bindings[connection_id]
    THEN Returned(AccessDenied, NoCall, agent_bindings)
    ELSE IF data.sql = Null
    THEN \* None has no strip(): the AttributeError is caught by the handler
         Returned(Response("error", "SQL execution failed"), NoCall, agent_bindings)
    ELSE IF ~IsSelect(data.sql)
    THEN Returned(Response("error", "Only SELECT queries are allowed"), NoCall,
                  agent_bindings)
    ELSE LET call == BackendCall("execute_raw_query", {data.database_id}, data.sql)
         IN  Returned(IF ok THEN Response("sql_result", "")
                            ELSE Response("error", "SQL execution failed"),
                      call, agent_bindings)

process_operation(data, connection_id, ok) ==
    CASE data.operation = "authenticate" -> handle_authenticate(data, connection_id, ok)
      [] data.operation = "list_databases" -> handle_list_databases(data, connection_id, ok)
      [] data.operation = "query_database" -> handle_query_database(data, connection_id, ok)
      [] data.operation = "search_knowledge" -> handle_search_knowledge(data, connection_id, ok)
      [] data.operation = "get_schema" -> handle_get_schema(data, connection_id, ok)
      [] data.operation = "execute_query" -> handle_execute_query(data, connection_id, ok)
      [] OTHER -> Returned(Response("error", "Unknown operation"), NoCall, agent_bindings)

\* send_error: an error response that carries no request_id.
send_error(error_message) ==
    [type |-> "error", error |-> error_message, request_id |-> NoId]

\* ------------------------------------------------------------- MCP sessions
Closed == [state |-> "closed", agent_id |-> NoId, business_id |-> NoId, authorized |-> {}]
Unauthenticated ==
    [state |-> "unauthenticated", agent_id |-> NoId, business_id |-> NoId, authorized |-> {}]
Authenticated(agent, business, ids) ==
    [state |-> "authenticated", agent_id |-> agent, business_id |-> business,
     authorized |-> ids]

Request(conn, kind, data) == [conn |-> conn, kind |-> kind, data |-> data]
NoRequest == Request(NoId, "none", NoData)
NoResponse == [type |-> "none", error |-> "", request_id |-> NoId]

\* No message is being answered: the step was not a handle_message.
NoExchange ==
    /\ lastReq' = NoRequest
    /\ lastResp' = NoResponse
    /\ lastCall' = NoCall

\* handle_connection up to the receive loop: the connection is registered under
\* conn_<id(websocket)> and the welcome message is sent. id() is unique among
\* live objects only, so the id of a closed connection can come back.
handle_connection(connection_id) ==
    /\ lastReq = NoRequest
    /\ connection_id \notin connections
    /\ connections' = connections \cup {connection_id}
    /\ session' = [session EXCEPT ![connection_id] = Unauthenticated]
    /\ lastReq' = Request(connection_id, "connect", NoData)
    /\ lastResp' = [type |-> "welcome", error |-> "", request_id |-> NoId]
    /\ lastCall' = NoCall
    /\ UNCHANGED <<agent_bindings, databases, nextDatabaseId, bindings, nextBindingId>>
    /\ UNCHANGED <<ingestVars, lastBind, chunkerVars, searchVars>>

\* handle_connection's finally block, when the websocket closes.
connection_closed(connection_id) ==
    /\ lastReq = NoRequest
    /\ connection_id \in connections
    /\ connections' = connections \ {connection_id}
    /\ session' = [session EXCEPT ![connection_id] = Closed]
    /\ NoExchange
    /\ UNCHANGED <<agent_bindings, databases, nextDatabaseId, bindings, nextBindingId>>
    /\ UNCHANGED <<ingestVars, lastBind, chunkerVars, searchVars>>

\* handle_message forgetting the connection's authentication on a frame that
\* does not parse.
handle_message_reset(connection_id, kind, data, ok) ==
    /\ lastReq = NoRequest
    /\ connection_id \in connections
    /\ lastReq' = Request(connection_id, kind, data)
    /\ IF kind = "malformed"
       THEN /\ lastResp' = send_error("Invalid JSON format")
            /\ lastCall' = NoCall
            /\ agent_bindings' = [x \in DOMAIN agent_bindings \ {connection_id} |->
                                      agent_bindings[x]]
            /\ session' = [session EXCEPT ![connection_id] = Unauthenticated]
       ELSE IF kind = "not_object"
       THEN /\ lastResp' = send_error("Internal server error")
            /\ lastCall' = NoCall
            /\ UNCHANGED <<agent_bindings, session>>
       ELSE LET r == process_operation(data, connection_id, ok)
            IN  /\ lastResp' = IF r.raised THEN send_error("Internal server error")
                               ELSE [type |-> r.response.type, error |-> r.response.error,
                                     request_id |-> data.request_id]
                /\ lastCall' = r.call
                /\ agent_bindings' = r.agent_bindings
                /\ session' = IF ~r.raised /\ r.response.type = "auth_success"
                              THEN [session EXCEPT ![connection_id] =
                                      Authenticated(data.agent_id, data.business_id,
                                          get_agent_bindings(data.agent_id, data.business_id))]
                              ELSE session
    /\ UNCHANGED <<connections, databases, nextDatabaseId, bindings, nextBindingId>>
    /\ UNCHANGED <<ingestVars, lastBind, chunkerVars, searchVars>>

\* handle_message started for a frame while the response to the frame before
\* it is still to be sent.
handle_message_pipelined(connection_id, kind, data, ok) ==
    /\ connection_id \in connections
    /\ lastReq' = Request(connection_id, kind, data)
    /\ IF kind = "malformed"
       THEN /\ lastResp' = send_error("Invalid JSON format")
            /\ lastCall' = NoCall
            /\ UNCHANGED <<agent_bindings, session>>
       ELSE IF kind = "not_object"
       THEN /\ lastResp' = send_error("Internal server error")
            /\ lastCall' = NoCall
            /\ UNCHANGED <<agent_bindings, session>>
       ELSE LET r == process_operation(data, connection_id, ok)
            IN  /\ lastResp' = IF r.raised THEN send_error("Internal server error")
                               ELSE [type |-> r.response.type, error |-> r.response.error,
                                     request_id |-> data.request_id]
                /\ lastCall' = r.call
                /\ agent_bindings' = r.agent_bindings
                /\ session' = IF ~r.raised /\ r.response.type = "auth_success"
                              THEN [session EXCEPT ![connection_id] =
                                      Authenticated(data.agent_id, data.business_id,
                                          get_agent_bindings(data.agent_id, data.business_id))]
                              ELSE session
    /\ UNCHANGED <<connections, databases, nextDatabaseId, bindings, nextBindingId>>
    /\ UNCHANGED <<ingestVars, lastBind, chunkerVars, searchVars>>

\* handle_message for one received frame: kind "malformed" is text json.loads
\* rejects, "not_object" is JSON that is no object (data.get raises), "object"
\* is a JSON object.
handle_message(connection_id, kind, data, ok) ==
    /\ lastReq = NoRequest
    /\ connection_id \in connections
    /\ lastReq' = Request(connection_id, kind, data)
    /\ IF kind = "malformed"
       THEN /\ lastResp' = send_error("Invalid JSON format")
            /\ lastCall' = NoCall
            /\ UNCHANGED <<agent_bindings, session>>
       ELSE IF kind = "not_object"
       THEN /\ lastResp' = send_error("Internal server error")
            /\ lastCall' = NoCall
            /\ UNCHANGED <<agent_bindings, session>>
       ELSE LET r == process_operation(data, connection_id, ok)
            IN  /\ lastResp' = IF r.raised THEN send_error("Internal server error")
                               ELSE [type |-> r.response.type, error |-> r.response.error,
                                     request_id |-> data.request_id]
                /\ lastCall' = r.call
                /\ agent_bindings' = r.agent_bindings
                /\ session' = IF ~r.raised /\ r.response.type = "auth_success"
                              THEN [session EXCEPT ![connection_id] =
                                      Authenticated(data.agent_id, data.business_id,
                                          get_agent_bindings(data.agent_id, data.business_id))]
                              ELSE session
    /\ UNCHANGED <<connections, databases, nextDatabaseId, bindings, nextBindingId>>
    /\ UNCHANGED <<ingestVars, lastBind, chunkerVars, searchVars>>

\* The awaited websocket.send of the response (or of the welcome message)
\* completes and the connection's receive loop waits for the next frame.
response_sent ==
    /\ lastReq # NoRequest
    /\ NoExchange
    /\ UNCHANGED <<connections, agent_bindings, session, databases, nextDatabaseId,
                   bindings, nextBindingId>>
    /\ UNCHANGED <<ingestVars, lastBind, chunkerVars, searchVars>>

\* ------------------------------------------------------------ file ingestion
\* Text is a sequence of characters. Lengths are modelled at a scale of 1:100:
\* FileProcessor.chunk_size is 1000, overlap_size 200, settings.MAX_FILE_SIZE
\* is scaled to two and a half windows.
chunk_size == 10
overlap_size == 2
MAX_FILE_SIZE == 25
\* core/config.py MAX_CONCURRENT_UPLOADS
MAX_CONCURRENT_UPLOADS == 5

ALLOWED_EXTENSIONS == {"xlsx", "xls", "csv", "json", "pdf", "txt", "docx"}

Repeat(c, n) == [i \in 1..n |-> c]
\* Uploaded bytes: a text shorter than a window, a text of two windows and a
\* file over the size limit.
FileContents ==
    {Repeat("a", 2), Repeat("a", chunk_size + 2), Repeat("a", MAX_FILE_SIZE + 1)}
\* File names, as the sequence of their dot-separated parts: none, one without
\* extension, text files, and a type that is not allowed.
Filenames ==
    {<<>>, <<"report">>, <<"report", ".", "txt">>, <<"report", ".", "TXT">>,
     <<"report", ".", "exe">>}

\* str.lower() of a file name part.
LowerToken(t) == IF t = "TXT" THEN "txt" ELSE t
HasDot(filename) == \E i \in 1..Len(filename) : filename[i] = "."
\* filename.rsplit('.', 1)[1].lower(): the part after the last dot.
Extension(filename) ==
    IF filename[Len(filename)] = "." THEN "" ELSE LowerToken(filename[Len(filename)])
\* files.py validate_file_extension
validate_file_extension(filename) ==
    HasDot(filename) /\ Extension(filename) \in ALLOWED_EXTENSIONS

\* files.py get_file_hash: SHA-256, taken as collision free.
get_file_hash(content) == <<"sha256", content>>
\* FileProcessor._get_content_hash
get_content_hash(content) == <<"sha256", content>>

\* Python's index clamping for slices and for the bounds of str.rfind.
Clamp(i, n) == IF i < 0 THEN (IF i + n < 0 THEN 0 ELSE i + n) ELSE (IF i > n THEN n ELSE i)
\* text[start:end]
Slice(text, start, end) ==
    SubSeq(text, Clamp(start, Len(text)) + 1, Clamp(end, Len(text)))
\* The positions, counted from 1, of the characters of text[start:end].
SlicePositions(text, start, end) ==
    (Clamp(start, Len(text)) + 1)..Clamp(end, Len(text))
\* text.rfind(' ', start, end): the highest index of a blank in the slice, or -1.
RFindSpace(text, start, end) ==
    LET found == {i \in Clamp(start, Len(text))..(Clamp(end, Len(text)) - 1) : text[i + 1] = " "}
    IN  IF found = {} THEN -1 ELSE CHOOSE i \in found : \A j \in found : j <= i

\* One pass of the while loop of FileProcessor._split_text for the window that
\* starts at `start`: where the window ends, the chunk it yields (empty: none)
\* and the start of the next window.
split_window(text, start) ==
    LET window_end == start + chunk_size
        last_space == IF window_end < Len(text)
                      THEN RFindSpace(text, start, window_end) ELSE -1
        end == IF window_end < Len(text) /\ last_space > start
               THEN last_space ELSE window_end
    IN  [end |-> end,
         chunk |-> Strip(Slice(text, start, end)),
         next |-> IF end < Len(text) THEN end - overlap_size ELSE end]

\* The while loop of FileProcessor._split_text from the window start `start`,
\* with the chunks collected so far. The loop's only state besides the chunks
\* is start, so a start seen before means the loop never ends.
RECURSIVE split_loop(_, _, _, _)
split_loop(text, start, chunks, seen) ==
    IF ~(start < Len(text)) THEN [done |-> TRUE, chunks |-> chunks]
    ELSE IF start \in seen THEN [done |-> FALSE, chunks |-> chunks]
    ELSE LET w == split_window(text, start)
         IN  split_loop(text, w.next,
                        IF w.chunk # <<>> THEN Append(chunks, w.chunk) ELSE chunks,
                        seen \cup {start})
\* FileProcessor._split_text
split_text(text) ==
    IF Len(text) <= chunk_size THEN [done |-> TRUE, chunks |-> <<text>>]
    ELSE split_loop(text, 0, <<>>, {})

\* FileProcessor._create_chunks over the extracted records: each chunk gets
\* its hash and, as index, the number of chunks made before it.
RECURSIVE create_chunks(_, _)
create_chunks(records, chunks) ==
    IF records = <<>> THEN [done |-> TRUE, chunks |-> chunks]
    ELSE LET parts == split_text(Head(records))
             made == [j \in 1..Len(parts.chunks) |->
                        [content |-> parts.chunks[j],
                         hash |-> get_content_hash(parts.chunks[j]),
                         index |-> Len(chunks) + j - 1]]
         IN  IF parts.done THEN create_chunks(Tail(records), chunks \o made)
             ELSE [done |-> FALSE, chunks |-> chunks \o made]

\* The extractor process_file selects by source_type. _process_text returns the
\* file's text as one record or lets the error of open/read escape; the
\* parsers of the other allowed types are outside the model, no modelled
\* upload carries such a file.
extract(source_type, content, readable) ==
    IF source_type = "txt"
    THEN IF readable THEN [ok |-> TRUE, records |-> <<content>>, error |-> ""]
         ELSE [ok |-> FALSE, records |-> <<>>, error |-> "read error"]
    ELSE [ok |-> FALSE, records |-> <<>>, error |-> "Unsupported file type"]

\* models/database.py DataSource: the columns the ingestion reads or writes.
\* file_path NoId and processing_error "" stand for NULL.
DataSource(database_id, business, source_type, file_hash, file_size) ==
    [database_id |-> database_id, business_id |-> business, source_type |-> source_type,
     file_hash |-> file_hash, file_size |-> file_size, file_path |-> NoId,
     processing_status |-> "pending", processing_error |-> "", records_count |-> 0]
\* models/database.py DataChunk
DataChunk(business, chunk) ==
    [business_id |-> business, content_hash |-> chunk.hash, chunk_index |-> chunk.index]

Idle == [pc |-> "idle", data_source_id |-> NoId]
Upload(business, content, outcome) ==
    [business |-> business, content |-> content, outcome |-> outcome]
NoUpload == Upload(NoId, <<>>, "none")
Drop(f, k) == [x \in DOMAIN f \ {k} |-> f[x]]

\* A duplicate check that leaves out the filter on the business.
existing_source_any_business(business, file_hash) ==
    {i \in DOMAIN data_sources : data_sources[i].file_hash = file_hash}
\* upload_file, lines 96-99: the data sources of the business with this hash.
existing_source(business, file_hash) ==
    {i \in DOMAIN data_sources :
        data_sources[i].business_id = business /\ data_sources[i].file_hash = file_hash}

\* upload_file, lines 59-105: the checks in the order the handler makes them.
upload_check(business, database_id, filename, content) ==
    IF filename = <<>> THEN "no_file"
    ELSE IF ~validate_file_extension(filename) THEN "unsupported_type"
    ELSE IF Len(content) > MAX_FILE_SIZE THEN "too_large"
    ELSE IF ~ \E d \in databases : d.id = database_id /\ d.business_id = business
    THEN "database_not_found"
    ELSE IF existing_source(business, get_file_hash(content)) # {} THEN "duplicate"
    ELSE "accepted"

\* upload_file adding the row ahead of the check for a file already uploaded.
upload_file_insert_first(business, database_id, filename, content) ==
    LET outcome == upload_check(business, database_id, filename, content)
        id == nextSourceId + 1
    IN  /\ lastUpload = NoUpload
        /\ run = Idle
        /\ outcome \in {"accepted", "duplicate"} => nextSourceId < MaxSources
        /\ lastUpload' = Upload(business, content, outcome)
        /\ IF outcome \in {"accepted", "duplicate"}
           THEN /\ data_sources' = Put(data_sources, id,
                       DataSource(database_id, business, Extension(filename),
                                  get_file_hash(content), Len(content)))
                /\ data_chunks' = Put(data_chunks, id, <<>>)
                /\ index_result' = Put(index_result, id, "none")
                /\ nextSourceId' = id
                /\ uploads' = Put(uploads, id, content)
           ELSE UNCHANGED <<data_sources, data_chunks, index_result, nextSourceId, uploads>>
        /\ UNCHANGED <<storage, tasks, run, runs>>

\* upload_file up to the commit of the new row (lines 59-125). The handler's
\* only await before it is file.read(), ahead of the database checks, so the
\* checks and the insert run in one turn of the event loop.
upload_file(business, database_id, filename, content) ==
    LET outcome == upload_check(business, database_id, filename, content)
        id == nextSourceId + 1
    IN  /\ lastUpload = NoUpload
        /\ run = Idle
        /\ outcome = "accepted" => nextSourceId < MaxSources
        /\ lastUpload' = Upload(business, content, outcome)
        /\ IF outcome = "accepted"
           THEN /\ data_sources' = Put(data_sources, id,
                       DataSource(database_id, business, Extension(filename),
                                  get_file_hash(content), Len(content)))
                /\ data_chunks' = Put(data_chunks, id, <<>>)
                /\ index_result' = Put(index_result, id, "none")
                /\ nextSourceId' = id
                /\ uploads' = Put(uploads, id, content)
           ELSE UNCHANGED <<data_sources, data_chunks, index_result, nextSourceId, uploads>>
        /\ UNCHANGED <<storage, tasks, run, runs>>

\* upload_file after the awaited write of the file (lines 127-160): file_path
\* is committed and process_file_background is added as a task. When the row
\* was deleted meanwhile the commit raises and no task is added.
upload_file_saved(id) ==
    /\ lastUpload = NoUpload
    /\ run = Idle
    /\ id \in DOMAIN uploads
    /\ storage' = Put(storage, id, uploads[id])
    /\ uploads' = Drop(uploads, id)
    /\ IF id \in DOMAIN data_sources
       THEN /\ data_sources' = [data_sources EXCEPT ![id].file_path = id]
            /\ tasks' = [tasks EXCEPT ![id] = @ + 1]
            /\ runs' = [runs EXCEPT ![id] = @ + 1]
       ELSE UNCHANGED <<data_sources, tasks, runs>>
    /\ UNCHANGED <<nextSourceId, data_chunks, run, index_result, lastUpload>>

\* background_tasks.py process_file_background: a further ingestion request
\* for a stored data source is queued like the first.
process_file_background(id) ==
    /\ lastUpload = NoUpload
    /\ run = Idle
    /\ id \in DOMAIN data_sources
    /\ data_sources[id].file_path # NoId
    /\ runs[id] < MaxRuns
    /\ tasks' = [tasks EXCEPT ![id] = @ + 1]
    /\ runs' = [runs EXCEPT ![id] = @ + 1]
    /\ UNCHANGED <<data_sources, nextSourceId, data_chunks, storage, uploads, run,
                   index_result, lastUpload>>

\* A queued task that starts while another run is still executing.
process_file_start_overlapping(id) ==
    /\ lastUpload = NoUpload
    /\ tasks[id] > 0
    /\ tasks' = [tasks EXCEPT ![id] = @ - 1]
    /\ IF id \in DOMAIN data_sources
       THEN /\ data_sources' = [data_sources EXCEPT ![id].processing_status = "processing"]
            /\ run' = [pc |-> "extract", data_source_id |-> id]
       ELSE UNCHANGED <<data_sources, run>>
    /\ UNCHANGED <<nextSourceId, data_chunks, storage, uploads, runs, index_result, lastUpload>>

\* process_file, lines 35-51: a queued task starts; a missing row ends it,
\* otherwise the status is committed as "processing". process_file has no
\* suspension point, so nothing else runs until it returns.
process_file_start(id) ==
    /\ lastUpload = NoUpload
    /\ run = Idle
    /\ tasks[id] > 0
    /\ tasks' = [tasks EXCEPT ![id] = @ - 1]
    /\ IF id \in DOMAIN data_sources
       THEN /\ data_sources' = [data_sources EXCEPT ![id].processing_status = "processing"]
            /\ run' = [pc |-> "extract", data_source_id |-> id]
       ELSE UNCHANGED <<data_sources, run>>
    /\ UNCHANGED <<nextSourceId, data_chunks, storage, uploads, runs, index_result, lastUpload>>

\* A run that adds each chunk row as soon as the chunk is made, so that the
\* rows made before a failure stay.
process_file_chunks_partial(readable, committed, recorded) ==
    LET id == run.data_source_id
        extracted == extract(data_sources[id].source_type, storage[id], readable)
        made == create_chunks(extracted.records, <<>>)
        failed(error) ==
            /\ IF recorded
               THEN data_sources' = [data_sources EXCEPT
                        ![id].processing_status = "error",
                        ![id].processing_error = error]
               ELSE UNCHANGED data_sources
            /\ run' = Idle
            /\ UNCHANGED data_chunks
    IN  /\ run.pc = "extract"
        /\ IF ~extracted.ok THEN failed(extracted.error)
           ELSE IF ~made.done
           THEN /\ data_chunks' = [data_chunks EXCEPT ![id] =
                       @ \o [j \in 1..Len(made.chunks) |->
                                DataChunk(data_sources[id].business_id, made.chunks[j])]]
                /\ data_sources' = [data_sources EXCEPT
                       ![id].processing_status = "error",
                       ![id].processing_error = "MemoryError"]
                /\ run' = Idle
           ELSE IF ~committed THEN failed("commit error")
           ELSE /\ data_chunks' = [data_chunks EXCEPT ![id] =
                       @ \o [j \in 1..Len(made.chunks) |->
                                DataChunk(data_sources[id].business_id, made.chunks[j])]]
                /\ data_sources' = [data_sources EXCEPT
                       ![id].processing_status = "completed",
                       ![id].records_count = Len(made.chunks)]
                /\ run' = [run EXCEPT !.pc = "index"]
        /\ UNCHANGED <<nextSourceId, storage, uploads, tasks, runs, index_result, lastUpload>>

\* A run that records the number of extracted records as records_count.
process_file_chunks_counting_records(readable, committed, recorded) ==
    LET id == run.data_source_id
        extracted == extract(data_sources[id].source_type, storage[id], readable)
        made == create_chunks(extracted.records, <<>>)
        failed(error) ==
            /\ IF recorded
               THEN data_sources' = [data_sources EXCEPT
                        ![id].processing_status = "error",
                        ![id].processing_error = error]
               ELSE UNCHANGED data_sources
            /\ run' = Idle
            /\ UNCHANGED data_chunks
    IN  /\ run.pc = "extract"
        /\ IF ~extracted.ok THEN failed(extracted.error)
           ELSE IF ~made.done THEN failed("MemoryError")
           ELSE IF ~committed THEN failed("commit error")
           ELSE /\ data_chunks' = [data_chunks EXCEPT ![id] =
                       @ \o [j \in 1..Len(made.chunks) |->
                                DataChunk(data_sources[id].business_id, made.chunks[j])]]
                /\ data_sources' = [data_sources EXCEPT
                       ![id].processing_status = "completed",
                       ![id].records_count = Len(extracted.records)]
                /\ run' = [run EXCEPT !.pc = "index"]
        /\ UNCHANGED <<nextSourceId, storage, uploads, tasks, runs, index_result, lastUpload>>

\* process_file, lines 53-93, and its except block, lines 101-113: extract,
\* chunk, add the chunk rows and commit "completed" with the chunk count; an
\* exception on the way commits "error" with its text instead. A split that
\* never ends appends chunks until memory is exhausted. committed: the
\* commit of the rows and of "completed" (line 93) succeeds; a failed commit
\* is rolled back and raises. recorded: the commit of the error status in
\* the except block (line 108) succeeds; its own exception is passed over
\* (lines 109-110) and the status stays as it was.
process_file_chunks(readable, committed, recorded) ==
    LET id == run.data_source_id
        extracted == extract(data_sources[id].source_type, storage[id], readable)
        made == create_chunks(extracted.records, <<>>)
        failed(error) ==
            /\ IF recorded
               THEN data_sources' = [data_sources EXCEPT
                        ![id].processing_status = "error",
                        ![id].processing_error = error]
               ELSE UNCHANGED data_sources
            /\ run' = Idle
            /\ UNCHANGED data_chunks
    IN  /\ run.pc = "extract"
        /\ IF ~extracted.ok THEN failed(extracted.error)
           ELSE IF ~made.done THEN failed("MemoryError")
           ELSE IF ~committed THEN failed("commit error")
           ELSE /\ data_chunks' = [data_chunks EXCEPT ![id] =
                       @ \o [j \in 1..Len(made.chunks) |->
                                DataChunk(data_sources[id].business_id, made.chunks[j])]]
                /\ data_sources' = [data_sources EXCEPT
                       ![id].processing_status = "completed",
                       ![id].records_count = Len(made.chunks)]
                /\ run' = [run EXCEPT !.pc = "index"]
        /\ UNCHANGED <<nextSourceId, storage, uploads, tasks, runs, index_result, lastUpload>>

\* process_file, lines 95-99, with _index_chunks: the index step runs after
\* the commit; _index_chunks logs an exception of the step and returns, and
\* process_file returns True.
process_file_index(ok) ==
    /\ run.pc = "index"
    /\ index_result' = [index_result EXCEPT ![run.data_source_id] =
                            IF ok THEN "indexed" ELSE "failed"]
    /\ run' = Idle
    /\ UNCHANGED <<data_sources, nextSourceId, data_chunks, storage, uploads, tasks, runs,
                   lastUpload>>

\* The response of upload_file's checks has been taken.
upload_checked ==
    /\ lastUpload # NoUpload
    /\ lastUpload' = NoUpload
    /\ UNCHANGED <<data_sources, nextSourceId, data_chunks, storage, uploads, tasks, run,
                   runs, index_result>>

\* -------------------------------------------------------------- the chunker
\* No call of _split_text is in progress.
NoSplit == [pc |-> "idle", text |-> <<>>, start |-> 0, chunks |-> <<>>, covered |-> {}]

\* The characters of a text: a letter and a blank.
Chars == {"a", " "}
TextsOfLen(n) == [1..n -> Chars]
\* The texts _split_text is called with.
Texts == UNION {TextsOfLen(n) : n \in 0..MaxTextLen}

\* _split_text is called (lines 279-283): a text of at most chunk_size
\* characters is returned as its only chunk, a longer one enters the loop.
split_text_call ==
    /\ split.pc = "call"
    /\ split' = IF Len(split.text) <= chunk_size
                THEN [split EXCEPT !.pc = "done", !.chunks = <<split.text>>,
                                   !.covered = 1..Len(split.text)]
                ELSE [split EXCEPT !.pc = "loop", !.start = 0, !.chunks = <<>>]
    /\ UNCHANGED <<tableVars, mcpVars, ingestVars, searchVars>>

\* One pass of the while loop (lines 285-300). A loop that never ends appends
\* a chunk on every pass; the length of the list is capped at MaxChunks.
\* covered is history: the positions of the text inside a window that
\* yielded a chunk.
split_text_pass ==
    /\ split.pc = "loop"
    /\ split.start < Len(split.text)
    /\ Len(split.chunks) < MaxChunks
    /\ LET w == split_window(split.text, split.start)
       IN  split' = [split EXCEPT
                        !.start = w.next,
                        !.chunks = IF w.chunk # <<>> THEN Append(@, w.chunk) ELSE @,
                        !.covered = IF w.chunk # <<>>
                                    THEN @ \cup SlicePositions(split.text, split.start, w.end)
                                    ELSE @]
    /\ UNCHANGED <<tableVars, mcpVars, ingestVars, searchVars>>

\* The loop condition fails and the chunks are returned (lines 285, 302).
split_text_return ==
    /\ split.pc = "loop"
    /\ ~(split.start < Len(split.text))
    /\ split' = [split EXCEPT !.pc = "done"]
    /\ UNCHANGED <<tableVars, mcpVars, ingestVars, searchVars>>

\* ------------------------------------------------------------ bind requests
Bind(database_id, agent, business, outcome) ==
    [database_id |-> database_id, agent_id |-> agent, business_id |-> business,
     outcome |-> outcome]
NoBind == Bind(NoId, NoId, NoId, "none")

\* The response of bind_agent_to_database has been taken.
bind_answered ==
    /\ lastBind # NoBind
    /\ lastBind' = NoBind
    /\ UNCHANGED <<databases, nextDatabaseId, bindings, nextBindingId>>

\* ---------------------------------------------------------- semantic search
Search(business, filtered, hits) == [business |-> business, filtered |-> filtered, hits |-> hits]
NoSearch == Search(NoId, TRUE, {})

\* VectorService.index_chunks, lines 65-80: the point made of the i-th chunk of
\* a data source. The payload holds the data source id, the chunk's index
\* and the chunk's metadata as _create_chunks wrote it; owner is history, the
\* business of the chunk row, which the payload does not hold.
Point(data_source_id, i, row) ==
    [id |-> <<data_source_id, i>>,
     data_source_id |-> data_source_id,
     chunk_index |-> row.chunk_index,
     content_hash |-> row.content_hash,
     metadata |-> [chunk_index |-> row.chunk_index, source_type |-> "text"],
     owner |-> row.business_id]

\* VectorService.index_chunks: every chunk is embedded, then all points are
\* upserted at once; a failing embedding raises before the upsert.
\* process_file leaves its call commented out (file_processor.py 317), the
\* collection is filled by calls made for the chunk rows of a data source.
index_chunks(data_source_id, ok) ==
    /\ lastSearch = NoSearch
    /\ lastUpload = NoUpload
    /\ run = Idle
    /\ data_source_id \in DOMAIN data_chunks
    /\ data_chunks[data_source_id] # <<>>
    /\ LET rows == data_chunks[data_source_id]
           points == {Point(data_source_id, i - 1, rows[i]) : i \in 1..Len(rows)}
       IN  vector_index' =
               IF ok THEN {q \in vector_index : \A n \in points : n.id # q.id} \cup points
               ELSE vector_index
    /\ UNCHANGED <<lastSearch, tableVars, mcpVars, ingestVars, chunkerVars>>

\* The filter search_similar hands to the index (lines 110-117): the points
\* whose payload has metadata.business_id equal to the business.
MatchesFilter(point, business) ==
    /\ "business_id" \in DOMAIN point.metadata
    /\ point.metadata.business_id = business

\* The points an index may answer with: any of those that pass the filter (a
\* score threshold and a limit cut the rest), or any at all when the index
\* does not apply the filter.
IndexAnswers(business, filtered) ==
    SUBSET (IF filtered THEN {q \in vector_index : MatchesFilter(q, business)}
            ELSE vector_index)

\* VectorService.search_similar, lines 122-132: the hits as the index gave
\* them, formatted.
search_similar(business, answer) == answer

\* search.py search_data: the results of search_similar are the response.
search_data(business, filtered, answer) ==
    /\ lastSearch = NoSearch
    /\ lastUpload = NoUpload
    /\ run = Idle
    /\ answer \in IndexAnswers(business, filtered)
    /\ lastSearch' = Search(business, filtered, search_similar(business, answer))
    /\ UNCHANGED <<vector_index, tableVars, mcpVars, ingestVars, chunkerVars>>

\* The response of search_data has been sent.
search_answered ==
    /\ lastSearch # NoSearch
    /\ lastSearch' = NoSearch
    /\ UNCHANGED <<vector_index, tableVars, mcpVars, ingestVars, chunkerVars>>

\* ------------------------------------------------------------ specification
\* The service after start-up: empty tables, no connection, nothing stored.
InitService ==
    /\ databases = {}
    /\ nextDatabaseId = 0
    /\ bindings = {}
    /\ nextBindingId = 0
    /\ connections = {}
    /\ agent_bindings = << >>
    /\ session = [c \in PairConnIds |-> Closed]
    /\ lastReq = NoRequest
    /\ lastResp = NoResponse
    /\ lastCall = NoCall
    /\ data_sources = << >>
    /\ nextSourceId = 0
    /\ data_chunks = << >>
    /\ storage = << >>
    /\ uploads = << >>
    /\ tasks = [i \in SourceIds |-> 0]
    /\ run = Idle
    /\ runs = [i \in SourceIds |-> 0]
    /\ index_result = << >>
    /\ lastUpload = NoUpload
    /\ lastBind = NoBind
    /\ vector_index = {}
    /\ lastSearch = NoSearch

Init == InitService /\ split = NoSplit

\* An endpoint of databases.py runs in a turn of the event loop of its own.
Endpoint(op) ==
    /\ lastReq = NoRequest
    /\ lastUpload = NoUpload
    /\ lastBind = NoBind
    /\ lastSearch = NoSearch
    /\ run = Idle
    /\ op
    /\ NoExchange
    /\ UNCHANGED <<connections, agent_bindings, session>>
    /\ UNCHANGED <<nextSourceId, storage, uploads, tasks, run, runs, lastUpload>>
    /\ UNCHANGED <<chunkerVars, searchVars>>

CreateDatabase ==
    \E b \in Businesses, n \in Names :
        Endpoint(create_database(b, n))
            /\ UNCHANGED <<data_sources, data_chunks, index_result, lastBind>>
DeleteDatabase ==
    \E d \in DatabaseIds, b \in Businesses :
        Endpoint(delete_database(d, b)) /\ UNCHANGED lastBind
BindAgent ==
    \E d \in DatabaseIds, a \in Agents, b \in Businesses :
        Endpoint(bind_agent_to_database(d, a, b))
            /\ UNCHANGED <<data_sources, data_chunks, index_result, lastBind>>
RemoveBinding ==
    \E i \in BindingIds, b \in Businesses :
        Endpoint(remove_agent_binding(i, b))
            /\ UNCHANGED <<data_sources, data_chunks, index_result, lastBind>>
Connect == \E c \in ConnIds : handle_connection(c)
Disconnect == \E c \in ConnIds : connection_closed(c)
\* A frame arrives; the backend can only fail where the handler calls it.
ReceiveOn(C, M) ==
    \E c \in C, ok \in BOOLEAN :
        \/ \E m \in M :
              /\ ok \/ process_operation(m, c, TRUE).call # NoCall
              /\ handle_message(c, "object", m, ok)
        \/ \E k \in {"malformed", "not_object"} : ok /\ handle_message(c, k, NoData, ok)
ReceiveFrom(M) == ReceiveOn(ConnIds, M)
Receive == ReceiveFrom(Messages)

Next ==
    \/ CreateDatabase
    \/ DeleteDatabase
    \/ BindAgent
    \/ RemoveBinding
    \/ Connect
    \/ Disconnect
    \/ Receive
    \/ response_sent

Spec == Init /\ [][Next]_vars

\* The file ingestion pipeline over the databases of the businesses. A file
\* whose name is rejected is never read: it arrives without content.
UploadFileFrom(C) ==
    \E b \in Businesses, d \in DatabaseIds, f \in Filenames :
        \E c \in IF f # <<>> /\ validate_file_extension(f) THEN C ELSE {<<>>} :
            lastSearch = NoSearch /\ upload_file(b, d, f, c) /\ UNCHANGED <<tableVars, mcpVars, chunkerVars, searchVars>>
UploadFile == UploadFileFrom(FileContents)
UploadFileSaved ==
    \E i \in SourceIds : lastSearch = NoSearch /\ upload_file_saved(i) /\ UNCHANGED <<tableVars, mcpVars, chunkerVars, searchVars>>
IngestionRequested ==
    \E i \in SourceIds : lastSearch = NoSearch /\ process_file_background(i) /\ UNCHANGED <<tableVars, mcpVars, chunkerVars, searchVars>>
ProcessFileStart ==
    \E i \in SourceIds : lastSearch = NoSearch /\ process_file_start(i) /\ UNCHANGED <<tableVars, mcpVars, chunkerVars, searchVars>>
\* The step of a run with the outcomes of its commits drawn from D.
ProcessFileChunksWith(D) ==
    \E readable \in BOOLEAN, committed \in D, recorded \in D :
        process_file_chunks(readable, committed, recorded)
            /\ UNCHANGED <<tableVars, mcpVars, chunkerVars, searchVars>>
\* The step of a run while the database accepts every commit.
ProcessFileChunks == ProcessFileChunksWith({TRUE})
ProcessFileIndex ==
    \E ok \in BOOLEAN : process_file_index(ok) /\ UNCHANGED <<tableVars, mcpVars, chunkerVars, searchVars>>
UploadChecked == upload_checked /\ UNCHANGED <<tableVars, mcpVars, chunkerVars, searchVars>>

NextIngest ==
    \/ CreateDatabase
    \/ DeleteDatabase
    \/ UploadFile
    \/ UploadFileSaved
    \/ IngestionRequested
    \/ ProcessFileStart
    \/ ProcessFileChunks
    \/ ProcessFileIndex
    \/ UploadChecked

SpecIngest == Init /\ [][NextIngest]_vars

\* The scenario of a text file of two and a half windows: the pipeline fed
\* with such texts only, each data source ingested once.
ScenarioLength == 2 * chunk_size + chunk_size \div 2
\* Texts of that length: without a blank, with one blank (at the start, near
\* the start, in the second window) and of words of four letters.
ScenarioTexts ==
    {[i \in 1..ScenarioLength |-> IF i = p THEN " " ELSE "a"] :
        p \in {0, 1, 3, chunk_size + 3}}
    \cup {[i \in 1..ScenarioLength |-> IF i % 5 = 0 THEN " " ELSE "a"]}
UploadScenarioFile == UploadFileFrom(ScenarioTexts)
NextScenario ==
    \/ CreateDatabase
    \/ UploadScenarioFile
    \/ UploadChecked
    \/ UploadFileSaved
    \/ ProcessFileStart
    \/ ProcessFileChunks
    \/ ProcessFileIndex
SpecScenario == Init /\ [][NextScenario]_vars

\* The vector collection and the search over it, with the pipeline that
\* makes the chunk rows fed with one text of two windows.
IndexTexts == {Repeat("a", chunk_size + 2)}
UploadIndexedFile == UploadFileFrom(IndexTexts)
IndexChunks == \E i \in SourceIds, ok \in BOOLEAN : index_chunks(i, ok)
SearchData ==
    \E b \in Businesses, filtered \in BOOLEAN :
        \E answer \in IndexAnswers(b, filtered) : search_data(b, filtered, answer)
NextIndex ==
    \/ CreateDatabase
    \/ DeleteDatabase
    \/ UploadIndexedFile
    \/ UploadChecked
    \/ UploadFileSaved
    \/ ProcessFileStart
    \/ ProcessFileChunks
    \/ ProcessFileIndex
    \/ IndexChunks
    \/ SearchData
    \/ search_answered
SpecIndex == Init /\ [][NextIndex]_vars

\* The chunker alone: _split_text called with any text of up to MaxTextLen
\* characters.
InitSplit ==
    /\ InitService
    /\ split \in {[pc |-> "call", text |-> t, start |-> 0, chunks |-> <<>>,
                    covered |-> {}] : t \in Texts}
NextSplit ==
    \/ split_text_call
    \/ split_text_pass
    \/ split_text_return
SpecSplit == InitSplit /\ [][NextSplit]_vars

\* The binding endpoints with the answer of each bind request recorded.
BindRequest ==
    \E d \in DatabaseIds, a \in Agents, b \in Businesses :
        /\ Endpoint(bind_agent_to_database(d, a, b))
        /\ lastBind' = Bind(d, a, b, bind_check(d, a, b))
        /\ UNCHANGED <<data_sources, data_chunks, index_result>>
BindAnswered ==
    /\ bind_answered
    /\ UNCHANGED <<mcpVars, ingestVars, chunkerVars, searchVars>>
NextBind ==
    \/ CreateDatabase
    \/ DeleteDatabase
    \/ BindRequest
    \/ BindAnswered
    \/ RemoveBinding
SpecBind == Init /\ [][NextBind]_vars

\* Two connections served side by side. The messages: authenticate with and
\* without its ids, list_databases, an unknown operation and query_database.
PairMessages ==
    {Data("authenticate", MaxRequestId, a, b, NoId, Null, Null) :
        a \in Agents \cup {NoId}, b \in Businesses}
    \cup {Data(op, MaxRequestId, NoId, NoId, NoId, Null, Null) :
        op \in {"list_databases", "ping"}}
    \cup {Data("query_database", MaxRequestId, NoId, NoId, d, <<"q">>, Null) :
        d \in DatabaseIds}
ConnectPair == \E c \in PairConnIds : handle_connection(c)
DisconnectPair == \E c \in PairConnIds : connection_closed(c)
ReceivePair == ReceiveOn(PairConnIds, PairMessages)
NextPair ==
    \/ CreateDatabase
    \/ BindAgent
    \/ ConnectPair
    \/ DisconnectPair
    \/ ReceivePair
    \/ response_sent
SpecPair == Init /\ [][NextPair]_vars

\* The ingestion runs while a commit of the database may fail: a short text
\* and a text of two windows, each data source ingested once. Once started,
\* process_file goes on to its return.
RunTexts == {Repeat("a", 2), Repeat("a", chunk_size + 2)}
UploadRunFile == UploadFileFrom(RunTexts)
ProcessFileChunksFailing == ProcessFileChunksWith(BOOLEAN)
NextRun ==
    \/ CreateDatabase
    \/ UploadRunFile
    \/ UploadChecked
    \/ UploadFileSaved
    \/ ProcessFileStart
    \/ ProcessFileChunksFailing
    \/ ProcessFileIndex
SpecRun == Init /\ [][NextRun]_vars
FairSpecRun ==
    /\ SpecRun
    /\ WF_vars(ProcessFileChunksFailing)
    /\ WF_vars(ProcessFileIndex)

\* ------------------------------------------------------------- MCP claims
DataResponses == {"database_list", "query_result", "search_result", "schema_info",
                  "sql_result"}
\* The operations that name a database.
DatabaseOperations == {"query_database", "search_knowledge", "get_schema", "execute_query"}

\* The frame answered last is a JSON object sent on a connection in state st.
Answered(st) ==
    /\ lastReq.kind = "object"
    /\ session[lastReq.conn].state = st
\* The request answered last names a database outside the connection's authorized set.
Unauthorized ==
    /\ Answered("authenticated")
    /\ lastReq.data.operation \in DatabaseOperations
    /\ lastReq.data.database_id \notin session[lastReq.conn].authorized
    /\ lastReq.data.operation = "search_knowledge" => lastReq.data.database_id # NoId
Exists(database_id) == \E d \in databases : d.id = database_id
\* A text that holds a mutating statement.
ContainsMutating(sql) == \E i \in 1..Len(sql) : sql[i] = "DROP"

\* C1: on a connection that has not completed a successful authenticate, every
\* operation other than authenticate is answered with the "Not authenticated"
\* error, never with a data response, and the connection stays open.
C1_UnauthenticatedGetsNotAuthenticated ==
    (Answered("unauthenticated") /\ lastReq.data.operation # "authenticate")
        => /\ lastResp.type = "error"
           /\ lastResp.error = "Not authenticated"
           /\ lastResp.type \notin DataResponses
           /\ lastReq.conn \in connections

\* C2: on an authenticated connection a request that names a database outside
\* the authorized set is answered with "Access denied" without any backend
\* call, and no backend call of any operation carries a database id outside
\* the authorized set (search_knowledge without a database_id searches the
\* authorized set only).
C2_UnauthorizedDatabaseDenied ==
    /\ Unauthorized =>
          /\ lastResp.type = "error"
          /\ lastResp.error = "Access denied to this database"
          /\ lastCall = NoCall
    /\ Answered("authenticated") =>
          lastCall.database_ids \subseteq session[lastReq.conn].authorized

\* C2 (witness): an authenticated connection with a non-empty authorized set asked
\* for a database that exists in its own business and is not bound, and was denied.
C2_Witness ==
    /\ Unauthorized
    /\ session[lastReq.conn].authorized # {}
    /\ \E d \in databases :
          /\ d.id = lastReq.data.database_id
          /\ d.business_id = session[lastReq.conn].business_id
    /\ lastResp.error = "Access denied to this database"

\* C3: per-connection state is destroyed on close and never shared: for a closed
\* connection, and for an accepted connection that has not authenticated, the
\* server holds no authorized set.
C3_ConnectionStateDestroyedOnClose ==
    \A c \in ConnIds :
        session[c].state \in {"closed", "unauthenticated"} => c \notin DOMAIN agent_bindings

\* C4: access denial is uniform: the whole response to a request that names a
\* database outside the authorized set is the same "Access denied" error with
\* the request id, whether or not the database exists (in this or another
\* business) and whatever the query or SQL text is.
C4_DenialUniform ==
    Unauthorized =>
        lastResp = [type |-> "error", error |-> "Access denied to this database",
                    request_id |-> lastReq.data.request_id]

\* C4 (witness): the denied request named a database that exists in another
\* business and carried a SQL text that is not a SELECT.
C4_Witness ==
    /\ Unauthorized
    /\ lastReq.data.operation = "execute_query"
    /\ lastReq.data.sql = <<"DROP">>
    /\ \E d \in databases :
          /\ d.id = lastReq.data.database_id
          /\ d.business_id # session[lastReq.conn].business_id
    /\ lastResp.error = "Access denied to this database"

\* C5: once the binding (agent, database) has been removed, or the database
\* deleted, no operation that names the database on an already authenticated
\* connection of the agent is authorized: it is denied without a backend call.
C5_RemovedBindingNotAuthorized ==
    ( /\ Answered("authenticated")
      /\ lastReq.data.operation \in DatabaseOperations
      /\ lastReq.data.database_id # NoId
      /\ ~ \E b \in bindings :
              /\ b.agent_id = session[lastReq.conn].agent_id
              /\ b.database_id = lastReq.data.database_id
              /\ b.is_active )
        => /\ lastResp.error = "Access denied to this database"
           /\ lastCall = NoCall

\* C6: execute_raw_query is never called with a text that holds a mutating
\* statement, and every such text is answered with the unsafe-query error.
C6_ExecuteQueryRejectsMutating ==
    /\ lastCall.fn = "execute_raw_query" => ~ContainsMutating(lastCall.payload)
    /\ ( /\ Answered("authenticated")
         /\ lastReq.data.operation = "execute_query"
         /\ lastReq.data.database_id \in session[lastReq.conn].authorized
         /\ lastReq.data.sql # Null
         /\ ContainsMutating(lastReq.data.sql) )
          => lastResp.error = "Only SELECT queries are allowed"

\* ------------------------------------------------------- ingestion claims
\* The status steps the ingestion contract allows.
LegalStatusSteps ==
    {<<"pending", "processing">>, <<"processing", "completed">>, <<"processing", "error">>}
\* The data sources of a business that hold the content with this hash.
SameContent(business, file_hash) ==
    {i \in DOMAIN data_sources :
        data_sources[i].business_id = business /\ data_sources[i].file_hash = file_hash}

\* C7: the status of a data source only moves pending -> processing ->
\* completed or error; no step reaches a terminal status from pending and no
\* step, a further process_file call included, leaves completed or error.
C7_StatusOnlyMovesForward ==
    [][\A i \in DOMAIN data_sources \cap DOMAIN data_sources' :
          \/ data_sources'[i].processing_status = data_sources[i].processing_status
          \/ <<data_sources[i].processing_status, data_sources'[i].processing_status>>
                \in LegalStatusSteps]_vars

\* C8: under any interleaving of ingestion requests the chunk rows of a data
\* source are never duplicated: no two of its rows carry the same chunk index.
C8_ChunkRowsNeverDuplicated ==
    \A i \in DOMAIN data_chunks :
        \A j, k \in 1..Len(data_chunks[i]) :
            j # k => data_chunks[i][j].chunk_index # data_chunks[i][k].chunk_index

\* C9: when the index step of a data source's run has failed, the job ends in
\* error with the error text recorded and no chunk row of the data source is
\* persisted.
C9_IndexFailureFailsJob ==
    \A i \in DOMAIN data_sources :
        (index_result[i] = "failed" /\ run.data_source_id # i)
            => /\ data_sources[i].processing_status = "error"
               /\ data_sources[i].processing_error # ""
               /\ data_chunks[i] = <<>>

\* C10: no two data sources have the same (business id, content hash); an
\* upload is answered as a duplicate only when the business holds a data
\* source with that hash, an accepted upload is the only holder of its hash in
\* its business, whatever other businesses hold.
C10_ContentUniquePerBusiness ==
    /\ \A i, j \in DOMAIN data_sources :
          (/\ data_sources[i].business_id = data_sources[j].business_id
           /\ data_sources[i].file_hash = data_sources[j].file_hash) => i = j
    /\ lastUpload.outcome = "duplicate" =>
          SameContent(lastUpload.business, get_file_hash(lastUpload.content)) # {}
    /\ lastUpload.outcome = "accepted" =>
          Cardinality(SameContent(lastUpload.business, get_file_hash(lastUpload.content))) = 1
\* A business is refused the bytes it holds already while another business
\* holds the same bytes, accepted for it before or after.
C10_Witness ==
    /\ lastUpload.outcome = "duplicate"
    /\ \E i \in DOMAIN data_sources :
          /\ data_sources[i].business_id # lastUpload.business
          /\ data_sources[i].file_hash = get_file_hash(lastUpload.content)

\* --------------------------------------------------------- chunker claims
\* C11: split terminates on every text: the start offset of each window is
\* strictly greater than the start offset of the window before it.
C11_WindowStartAdvances ==
    [][(split.pc = "loop" /\ split'.pc = "loop") => split'.start > split.start]_vars

\* C12: for a text of at most chunk_size characters split returns exactly one
\* chunk, and the chunk is the text without its leading and trailing blanks.
C12_ShortTextOneTrimmedChunk ==
    (split.pc = "done" /\ Len(split.text) <= chunk_size)
        => /\ Len(split.chunks) = 1
           /\ split.chunks[1] = Strip(split.text)

\* C13: a text file of two and a half windows, ingested with an overlap of a
\* fifth of the window, yields exactly 3 chunks wherever its blanks are: the
\* job ends completed with records_count 3 (only a file that cannot be read
\* may end it in error).
C13_ScenarioThreeChunks ==
    \A i \in DOMAIN data_sources :
        data_sources[i].file_size = ScenarioLength =>
            /\ data_sources[i].processing_status = "error"
                  => data_sources[i].processing_error = "read error"
            /\ data_sources[i].processing_status = "completed"
                  => /\ data_sources[i].records_count = 3
                     /\ Len(data_chunks[i]) = 3

\* ---------------------------------------------------------- search claims
\* C14: a search issued for a business never returns a chunk of another
\* business, whether or not the index applied the filter it was given.
C14_SearchReturnsOwnChunksOnly ==
    \A hit \in lastSearch.hits : hit.owner = lastSearch.business

\* C18: deletion cascades completely: no chunk row and no point of the
\* vector collection carries the id of a data source that has been deleted.
C18_DeletionCascadesToIndex ==
    /\ DOMAIN data_chunks \subseteq DOMAIN data_sources
    /\ \A point \in vector_index : point.data_source_id \in DOMAIN data_sources

\* ------------------------------------------------------ MCP protocol claims
\* C15: every response to a request that parses and carries a request_id
\* echoes that request_id, for results, for errors the handlers return and
\* for errors caused by a failure of the registry or the query backend.
C15_RequestIdEchoed ==
    (lastReq.kind = "object" /\ lastReq.data.request_id # NoId)
        => lastResp.request_id = lastReq.data.request_id

\* C16: a frame that does not parse is answered with an error response, the
\* connection stays open, and its authentication state and authorized set
\* are what they were, so later messages are processed as without it.
C16_MalformedLeavesSession ==
    [][lastReq'.kind = "malformed" =>
          /\ lastResp'.type = "error"
          /\ lastResp'.error = "Invalid JSON format"
          /\ lastReq'.conn \in connections'
          /\ UNCHANGED <<connections, agent_bindings, session>>]_vars
\* A frame that does not parse has been answered on an authenticated
\* connection that holds an authorized database.
C16_Witness ==
    /\ lastReq.kind = "malformed"
    /\ session[lastReq.conn].state = "authenticated"
    /\ lastReq.conn \in DOMAIN agent_bindings
    /\ agent_bindings[lastReq.conn] # {}

\* ------------------------------------------------------------ upload claims
Rejections == {"unsupported_type", "too_large", "database_not_found", "duplicate"}

\* C17: a rejected upload (extension, size, database, duplicate hash) creates
\* no data source, stores no file and schedules no run; an accepted one
\* creates exactly one data source with status pending, and its completion
\* schedules exactly one ingestion run for that data source.
C17_UploadEffects ==
    [][/\ (lastUpload = NoUpload /\ lastUpload' # NoUpload) =>
             /\ lastUpload'.outcome \in Rejections =>
                    UNCHANGED <<data_sources, storage, uploads, tasks, runs>>
             /\ lastUpload'.outcome = "accepted" =>
                    /\ \E id \in SourceIds \ DOMAIN data_sources :
                          /\ DOMAIN data_sources' = DOMAIN data_sources \cup {id}
                          /\ data_sources'[id].processing_status = "pending"
                          /\ DOMAIN uploads' = DOMAIN uploads \cup {id}
                    /\ \A j \in DOMAIN data_sources : data_sources'[j] = data_sources[j]
                    /\ UNCHANGED <<storage, tasks, runs>>
       /\ \A id \in DOMAIN uploads \ DOMAIN uploads' :
             id \in DOMAIN data_sources =>
                 /\ id \in DOMAIN storage'
                 /\ \A j \in SourceIds :
                       tasks'[j] = tasks[j] + (IF j = id THEN 1 ELSE 0)]_vars
\* A duplicate has been rejected while the run of the upload accepted before
\* it is queued.
C17_Witness ==
    /\ lastUpload.outcome = "duplicate"
    /\ \E id \in DOMAIN data_sources :
          /\ data_sources[id].processing_status = "pending"
          /\ tasks[id] = 1

\* The data sources whose ingestion run is executing.
executing_runs == IF run = Idle THEN {} ELSE {run.data_source_id}

ActiveBinding(agent, database_id) ==
    \E x \in bindings :
        x.agent_id = agent /\ x.database_id = database_id /\ x.is_active
AtMostOneActiveBinding ==
    \A x, y \in bindings :
        (x.agent_id = y.agent_id /\ x.database_id = y.database_id
            /\ x.is_active /\ y.is_active) => x = y

\* C20: a bind request on a database of the caller is refused as a duplicate
\* exactly when an active binding of the same (agent, database) pair exists;
\* a refused request leaves the bindings as they were; and after every bind
\* and unbind each pair has at most one active binding.
C20_DuplicateBinding ==
    [][/\ (lastBind = NoBind /\ lastBind' # NoBind) =>
             /\ (\E d \in databases : d.id = lastBind'.database_id
                                         /\ d.business_id = lastBind'.business_id)
                    => (lastBind'.outcome = "duplicate"
                           <=> ActiveBinding(lastBind'.agent_id, lastBind'.database_id))
             /\ lastBind'.outcome # "created" => bindings' = bindings
       /\ AtMostOneActiveBinding']_vars
\* A bind request has been refused as a duplicate.
C20_Witness ==
    /\ lastBind.outcome = "duplicate"
    /\ ActiveBinding(lastBind.agent_id, lastBind.database_id)

\* ------------------------------------------------- ingestion run claims
\* The i-th chunk row of a data source has its point in the vector index.
Indexed(data_source_id, row) ==
    \E q \in vector_index :
        q.data_source_id = data_source_id /\ q.chunk_index = row.chunk_index

\* C21: in no state is the status of a data source completed while one of
\* its chunk rows is not yet in the vector index.
C21_CompletedOnlyAfterIndexed ==
    \A i \in DOMAIN data_sources :
        data_sources[i].processing_status = "completed" =>
            \A j \in 1..Len(data_chunks[i]) : Indexed(i, data_chunks[i][j])

C23_RunningEventuallyEnds ==
    \A i \in SourceIds :
        (i \in DOMAIN data_sources /\ data_sources[i].processing_status = "processing")
            ~> (i \in DOMAIN data_sources
                   /\ data_sources[i].processing_status \in {"completed", "error"})

\* C24: within one data source no two persisted chunk rows have the same
\* content hash; identical chunks of a run are persisted once.
C24_ContentHashUniquePerSource ==
    \A i \in DOMAIN data_chunks :
        \A j, k \in 1..Len(data_chunks[i]) :
            j # k => data_chunks[i][j].content_hash # data_chunks[i][k].content_hash

\* ------------------------------------------------------------ split claims
\* C25: for any text, shorter or longer than the window, every chunk that
\* split returns is non-empty and has no leading or trailing blank, and a
\* text that is empty or all blanks yields no chunk.
C25_ChunksTrimmedAndNonEmpty ==
    split.pc = "done" =>
        /\ \A j \in 1..Len(split.chunks) :
              /\ split.chunks[j] # <<>>
              /\ Strip(split.chunks[j]) = split.chunks[j]
        /\ Strip(split.text) = <<>> => split.chunks = <<>>

\* C29: the chunks of a text longer than the window cover it: every
\* character that is not a blank lies inside a window from which a chunk was
\* produced, also when the pull-back to a blank and the overlap step move the
\* next window start to or before offset 0.
C29_ChunksCoverText ==
    (split.pc = "done" /\ Len(split.text) > chunk_size) =>
        \A p \in 1..Len(split.text) :
            split.text[p] # " " => p \in split.covered

\* ------------------------------------------------------ chunk row claims
\* The ordinal indices of the chunk rows of a data source.
ChunkIndices(i) == {data_chunks[i][j].chunk_index : j \in 1..Len(data_chunks[i])}

ResultType(operation) ==
    CASE operation = "query_database" -> "query_result"
      [] operation = "search_knowledge" -> "search_result"
      [] operation = "get_schema" -> "schema_info"
      [] operation = "execute_query" -> "sql_result"
FailureText(operation) ==
    CASE operation = "query_database" -> "Query execution failed"
      [] operation = "search_knowledge" -> "Search failed"
      [] operation = "get_schema" -> "Schema retrieval failed"
      [] operation = "execute_query" -> "SQL execution failed"

\* C26: a database operation whose backend call was made on an authenticated
\* connection is answered for that request, with the data response or, when
\* the backend failed, with the handler's error response; the connection
\* stays open and its authentication state and authorized set are as before.
C26_BackendFailureAnswered ==
    [][(/\ lastReq'.kind = "object"
        /\ lastReq'.data.operation \in DatabaseOperations
        /\ lastCall' # NoCall) =>
          /\ lastResp'.request_id = lastReq'.data.request_id
          /\ \/ lastResp'.type = ResultType(lastReq'.data.operation)
             \/ /\ lastResp'.type = "error"
                /\ lastResp'.error = FailureText(lastReq'.data.operation)
          /\ lastReq'.conn \in connections'
          /\ UNCHANGED <<connections, agent_bindings, session>>]_vars
\* The structured query of an authenticated connection has failed in the
\* backend and the request has been answered with the error.
C26_Witness ==
    /\ Answered("authenticated")
    /\ lastReq.data.operation = "query_database"
    /\ lastReq.data.request_id # NoId
    /\ lastCall.fn = "execute_structured_query"
    /\ lastResp.error = "Query execution failed"
    /\ lastResp.request_id = lastReq.data.request_id

\* What the server holds for a connection: whether it has an entry in
\* agent_bindings and the database ids of the entry.
ConnState(c) ==
    [authenticated |-> c \in DOMAIN agent_bindings,
     authorized |-> IF c \in DOMAIN agent_bindings THEN agent_bindings[c] ELSE {}]

C28_OneResponsePerMessageInOrder ==
    [][/\ \A c \in connections' \ connections :
             /\ lastReq' = Request(c, "connect", NoData)
             /\ lastResp'.type = "welcome"
       /\ (lastReq' # NoRequest /\ lastReq'.kind # "connect") =>
             /\ lastReq = NoRequest
             /\ lastReq'.conn \in connections
             /\ lastResp'.type \notin {"none", "welcome"}
       /\ lastReq # NoRequest =>
             /\ lastReq' = NoRequest
             /\ UNCHANGED <<connections, agent_bindings, session>>]_vars
\* A later frame of an authenticated connection has been answered with data.
C28_Witness ==
    /\ Answered("authenticated")
    /\ lastReq.data.operation # "authenticate"
    /\ lastResp.type \in DataResponses
    /\ lastResp.request_id = lastReq.data.request_id

====
